---- MODULE Spec2Model ----
(***************************************************************************)
(* Momentum (life-momentum): the record store with its row-level-security  *)
(* policies and foreign keys (supabase migration), and the client's view   *)
(* synchronizers (TodayView, GoalsView, MilestonesView), the Dashboard     *)
(* view switch and the AddItemModal create handlers.                       *)
(***************************************************************************)
EXTENDS Integers, Sequences, FiniteSets, Bags, TLC

\* ------------------------------------------------------------------ bounds
MaxRows == 3        \* rows ever inserted (ids and created_at are 1..MaxRows)
MaxReads == 2       \* select requests in flight at once
MaxUpdates == 2     \* toggle updates in flight at once
MaxInserts == 2     \* modal insert requests in flight at once
MaxPending == 1     \* undelivered change signals per channel (more coalesce)

\* --------------------------------------------------------------- universe
Users == {"A", "B"}
NoUser == "anon"                     \* no session: user is null, auth.uid() is NULL
Callers == Users \cup {NoUser}
Tables == {"tasks", "time_blocks", "goals", "milestones"}
Views == {"today", "goals", "milestones"}
Lists == {"tasks", "timeBlocks", "goals", "milestones", "mgoals"}
Null == 0
Dates == {1, 2}                      \* two calendar days: a day and the next
Starts == {1, 2}
GoalTypes == {"yearly", "monthly"}
Titles == {"Learn Spanish"}
NoDelete == [caller |-> NoUser, tbl |-> "none", owners |-> {}, n |-> 0]
NoInsert == [caller |-> NoUser, supplied |-> NoUser, ok |-> FALSE]
NoDbl == [n |-> 0]
NoGrp == [on |-> FALSE]
Names == {"Ann"}
NoName == "null"

VARIABLES
    store,       \* the rows of the four tables
    nextId,      \* next id / creation instant the server assigns
    lastInsert,  \* history: the last insert statement and its outcome
    lastDelete,  \* history: the last delete statement that removed rows
    user,        \* useAuth().user of the client (NoUser when signed out)
    today,       \* format(new Date(), 'yyyy-MM-dd') of the last render
    activeView,  \* Dashboard.activeView
    local,       \* the mounted view's useState lists
    channels,    \* live realtime channels
    signals,     \* change signals sent to a channel and not yet delivered
    reads,       \* select requests in flight
    updates,     \* toggle handlers awaiting their update
    toast,       \* the toast the last step raised ("none": it raised none)
    modalOpen,   \* Dashboard.modalOpen
    loading,     \* AddItemModal.loading
    inserts,     \* modal insert requests in flight
    dbl,         \* history: two toggles of one record in sequence
    grp,         \* history: toggles of one record issued while one was in flight
    overtaken,   \* history: the list whose load, applied last, was issued before one
                 \* applied earlier ("none": the load applied last was not)
    identities,  \* auth.users
    profiles,    \* public.profiles
    watch        \* history: which of the histories grp and overtaken are kept

storeVars == <<store, nextId, lastInsert, lastDelete>>
viewVars == <<user, today, activeView, local, channels, reads, updates>>
modalVars == <<modalOpen, loading, inserts>>
authVars == <<identities, profiles>>
vars == <<store, nextId, lastInsert, lastDelete, user, today, activeView, local, channels,
          signals, reads, updates, toast, modalOpen, loading, inserts, dbl, grp,
          overtaken, identities, profiles, watch>>

\* ------------------------------------------------------------------ schema
\* One row of tasks / time_blocks / goals / milestones; columns a table does
\* not have are Null.
NewRow(id, tbl, owner, date, start, gtype, gid, title) ==
    [id |-> id, tbl |-> tbl, user_id |-> owner, title |-> title,
     completed |-> FALSE,
     date |-> date, start |-> start, goal_type |-> gtype, goal_id |-> gid,
     created_at |-> id,
     updated_at |-> id,      \* DEFAULT NOW(), as created_at
     created_by |-> NoUser,  \* history: the session that inserted the row
     by |-> NoUser]          \* history: the session that last wrote the row

\* A row its owner inserted earlier.
Seeded(row) == [row EXCEPT !.created_by = row.user_id, !.by = row.user_id]

\* USING (auth.uid() = user_id)
PolicyUsing(caller, row) == caller # NoUser /\ caller = row.user_id

\* Variant: a check that only asks for a signed-in caller.
PolicyCheckSignedIn(caller, row) == caller # NoUser

\* WITH CHECK (auth.uid() = user_id)
PolicyCheck(caller, row) == caller # NoUser /\ caller = row.user_id

\* goal_id UUID REFERENCES public.goals(id): the referenced goal must exist
\* (the referential check is not subject to row security).
ForeignKeyOk(row) ==
    /\ row.user_id \in identities      \* user_id REFERENCES auth.users(id)
    /\ \/ row.goal_id = Null
       \/ \E g \in store : g.tbl = "goals" /\ g.id = row.goal_id

\* Variant: a foreign key that does not cascade.
CascadeNone(gone) == {}

\* ON DELETE CASCADE of milestones.goal_id
Cascade(gone) ==
    {m \in store : m.tbl = "milestones" /\ m.goal_id # Null
                   /\ \E g \in gone : g.tbl = "goals" /\ g.id = m.goal_id}

\* ------------------------------------------------------- store statements
Min(a, b) == IF a < b THEN a ELSE b

ChannelKeys == [tbl : Tables, user : Users]

\* Variant: changes are not published to the channels.
NotifiedNobody(rows) == signals

\* postgres_changes with filter user_id=eq.<owner>: every live channel of
\* (table, owner) of a written row gets one more signal.
Notified(rows) ==
    [k \in ChannelKeys |->
        IF k \in channels /\ \E r \in rows : r.tbl = k.tbl /\ r.user_id = k.user
        THEN Min(signals[k] + 1, MaxPending)
        ELSE signals[k]]

Owners(rows) == {r.user_id : r \in rows}

\* INSERT INTO <tbl> by `caller`: WITH CHECK and the foreign key decide it.
InsertOk(caller, row) == PolicyCheck(caller, row) /\ ForeignKeyOk(row)

StoreInsert(caller, row) ==
    /\ store' = IF InsertOk(caller, row)
                THEN store \cup {[row EXCEPT !.created_by = caller, !.by = caller]}
                ELSE store
    /\ nextId' = IF InsertOk(caller, row) THEN nextId + 1 ELSE nextId
    /\ signals' = IF InsertOk(caller, row) THEN Notified({row}) ELSE signals
    /\ lastInsert' = [caller |-> caller, supplied |-> row.user_id,
                      ok |-> InsertOk(caller, row)]
    /\ UNCHANGED lastDelete

\* UPDATE <tbl> SET completed = v WHERE id = <id>: the rows USING lets the
\* caller see; a statement that matches no row is no error.
UpdateTargets(caller, tbl, id) ==
    {r \in store : r.tbl = tbl /\ r.id = id /\ PolicyUsing(caller, r)}

\* Variant: no trigger that stamps the updated row.
HandleUpdatedAtNone(new) == new

\* handle_updated_at(), BEFORE UPDATE FOR EACH ROW: NEW.updated_at = NOW().
\* The instant of the statement is later than every created_at in the store.
HandleUpdatedAt(new) == [new EXCEPT !.updated_at = nextId]

StoreUpdate(caller, tbl, id, v) ==
    LET hit == UpdateTargets(caller, tbl, id) IN
    /\ store' = (store \ hit)
                   \cup {HandleUpdatedAt([r EXCEPT !.completed = v, !.by = caller]) :
                            r \in hit}
    /\ signals' = Notified(hit)
    /\ UNCHANGED <<nextId, lastInsert, lastDelete>>

\* DELETE FROM <tbl> WHERE id = <id>, with the cascade to milestones.
DeleteTargets(caller, tbl, id) ==
    {r \in store : r.tbl = tbl /\ r.id = id /\ PolicyUsing(caller, r)}

StoreDelete(caller, tbl, id) ==
    LET hit == DeleteTargets(caller, tbl, id)
        gone == hit \cup Cascade(hit) IN
    /\ store' = store \ gone
    /\ signals' = Notified(gone)
    /\ lastDelete' = IF gone = {} THEN lastDelete
                     ELSE [caller |-> caller, tbl |-> tbl, owners |-> Owners(gone),
                           n |-> Cardinality(gone)]
    /\ UNCHANGED <<nextId, lastInsert>>

\* SELECT * FROM <tbl> as `caller`: the rows USING lets the caller see.
Visible(caller, tbl) == {r \in store : r.tbl = tbl /\ PolicyUsing(caller, r)}

RECURSIVE Perms(_)
Perms(S) ==
    IF S = {} THEN {<<>>}
    ELSE UNION {{<<x>> \o p : p \in Perms(S \ {x})} : x \in S}

\* .order(column, { ascending }): every ordering of the rows sorted by the column
\* (rows with equal values come in any order; "none": no .order() at all).
KeyOf(r, column) ==
    CASE column = "created_at" -> r.created_at
      [] column = "start_time" -> r.start
      [] column = "none" -> 0

\* Variant: the ascending flag is ignored.
OrderedAscending(rows, column, asc) ==
    {s \in Perms(rows) :
        \A i, j \in 1..Len(s) : i < j => KeyOf(s[i], column) <= KeyOf(s[j], column)}

Ordered(rows, column, asc) ==
    {s \in Perms(rows) :
        \A i, j \in 1..Len(s) :
            i < j => IF asc THEN KeyOf(s[i], column) <= KeyOf(s[j], column)
                            ELSE KeyOf(s[i], column) >= KeyOf(s[j], column)}

RowIds(rows) == {r.id : r \in rows}
SeqRows(s) == {s[i] : i \in 1..Len(s)}

\* ------------------------------------------------------------ the queries
\* The table a list is read from.
TableOf(list) ==
    CASE list = "tasks" -> "tasks"
      [] list = "timeBlocks" -> "time_blocks"
      [] list = "goals" -> "goals"
      [] list = "milestones" -> "milestones"
      [] list = "mgoals" -> "goals"

\* The list a channel's callback re-fetches.
ListOfTable(tbl) ==
    CASE tbl = "tasks" -> "tasks"
      [] tbl = "time_blocks" -> "timeBlocks"
      [] tbl = "goals" -> "goals"
      [] tbl = "milestones" -> "milestones"

\* Variant: a query without the date filter.
MatchingAnyDate(caller, list, u, d) ==
    {r \in Visible(caller, TableOf(list)) : r.user_id = u}

\* .eq('user_id', user.id) and, for the Today lists, .eq('task_date', today)
\* / .eq('block_date', today), on the rows row security lets through.
Matching(caller, list, u, d) ==
    {r \in Visible(caller, TableOf(list)) :
        /\ r.user_id = u
        /\ list \in {"tasks", "timeBlocks"} => r.date = d}

\* .select('id, title')
Project(r) == [id |-> r.id, title |-> r.title]

\* The responses a select may return: the matching rows in the query's order.
SelectResult(caller, list, u, d) ==
    LET rows == Matching(caller, list, u, d) IN
    CASE list = "tasks" -> Ordered(rows, "created_at", TRUE)
      [] list = "timeBlocks" -> Ordered(rows, "start_time", TRUE)
      [] list = "goals" -> Ordered(rows, "created_at", FALSE)
      [] list = "milestones" -> Ordered(rows, "created_at", FALSE)
      [] list = "mgoals" ->
            {[i \in 1..Len(s) |-> Project(s[i])] : s \in Ordered(rows, "none", TRUE)}

\* ---------------------------------------------------------------- effects
\* The lists a view fetches when its effect runs (fetchData starts with the
\* milestones; its second select follows the first response).
FetchedOnMount(view) ==
    CASE view = "today" -> <<"tasks", "timeBlocks">>
      [] view = "goals" -> <<"goals">>
      [] view = "milestones" -> <<"milestones">>

\* The tables a view's effect subscribes to.
ChannelTables(view) ==
    CASE view = "today" -> {"tasks", "time_blocks"}
      [] view = "goals" -> {"goals"}
      [] view = "milestones" -> {"milestones"}

\* if (!user) return; otherwise the channels the effect creates.
EffectChannels(view, u) ==
    IF u = NoUser THEN {} ELSE {[tbl |-> t, user |-> u] : t \in ChannelTables(view)}

\* Variant: an effect without a cleanup.
CleanedUpNothing(chs, view, u) == chs

\* return () => { supabase.removeChannel(...) }: the cleanup of the effect
\* that ran for (view, u).
CleanedUp(chs, view, u) == chs \ EffectChannels(view, u)

\* Signals of channels that are gone are dropped with them.
Kept(sig, chs) == [k \in ChannelKeys |-> IF k \in chs THEN sig[k] ELSE 0]

\* Requests in flight are a bag: equal requests count separately.
Put(b, r) == b (+) SetToBag({r})
Take(b, r) == b (-) SetToBag({r})
Pending(b) == BagToSet(b)

NewRead(list, u, d, caller) ==
    [phase |-> "req", list |-> list, user |-> u, date |-> d, caller |-> caller,
     stale |-> FALSE, dead |-> FALSE, err |-> FALSE, data |-> <<>>,
     followed |-> FALSE, passed |-> FALSE]

\* History: the reads of `list` in flight have a later read issued behind them.
Followed(rs, list) ==
    LET F(r) == IF r.list = list THEN [r EXCEPT !.followed = TRUE] ELSE r
    IN  IF "loads" \in watch THEN BagOfAll(F, rs) ELSE rs

\* History: when the newest read of a list is applied, the older reads of
\* that list still in flight have been passed by it.
Passing(rs, r) ==
    LET F(x) == IF x.list = r.list /\ x.followed THEN [x EXCEPT !.passed = TRUE] ELSE x
    IN  IF r.err \/ r.dead \/ r.followed THEN rs ELSE BagOfAll(F, rs)

\* fetchX(): the select is sent at once.
Issue(rs, list, u, d, caller) == Put(Followed(rs, list), NewRead(list, u, d, caller))

RECURSIVE IssueAll(_, _, _, _)
IssueAll(rs, lists, u, d) ==
    IF lists = <<>> THEN rs
    ELSE IssueAll(Issue(rs, Head(lists), u, d, u), Tail(lists), u, d)

\* The effect body for (view, u, d): nothing without a user.
Fetched(rs, view, u, d) ==
    IF u = NoUser THEN rs ELSE IssueAll(rs, FetchedOnMount(view), u, d)

Needed(view, u) == IF u = NoUser THEN 0 ELSE Len(FetchedOnMount(view))

Stale(r) == [r EXCEPT !.stale = TRUE]
DeadRead(r) == [r EXCEPT !.stale = TRUE, !.dead = TRUE]
DeadUpdate(u) == [u EXCEPT !.dead = TRUE]

\* Reads whose effect was cleaned up (the view stays mounted).
TornDown(rs) == BagOfAll(Stale, rs)

\* Requests whose component was unmounted: its setState calls do nothing.
UnmountedReads(rs) == BagOfAll(DeadRead, rs)
UnmountedUpdates(us) == BagOfAll(DeadUpdate, us)

EmptyLists == [l \in Lists |-> <<>>]

\* ----------------------------------------------------------- local lists
\* Variant: a map without the id test.
MapCompletedAll(s, id, v) == [i \in 1..Len(s) |-> [s[i] EXCEPT !.completed = v]]

\* prev.map(t => t.id === id ? { ...t, completed: v } : t)
MapCompleted(s, id, v) ==
    [i \in 1..Len(s) |-> IF s[i].id = id THEN [s[i] EXCEPT !.completed = v] ELSE s[i]]

\* Variant: a handler that marks the record completed instead of toggling.
NewStatusSet(currentStatus) == TRUE

\* const newStatus = !currentStatus
NewStatus(currentStatus) == ~currentStatus

\* Variant: a revert that writes the new value again.
RevertedToNew(u) == u.newStatus

\* The value the error branch writes back.
Reverted(u) == u.currentStatus

ToastLoad(list) ==
    CASE list = "tasks" -> "Failed to load tasks"
      [] list = "timeBlocks" -> "Failed to load time blocks"
      [] list = "goals" -> "Failed to load goals"
      [] list = "milestones" -> "Failed to load milestones"
      [] list = "mgoals" -> "none"          \* console.error only

ToastUpdate(list) ==
    CASE list = "tasks" -> "Failed to update task"
      [] list = "goals" -> "Failed to update goal"
      [] list = "milestones" -> "Failed to update milestone"

\* The lists of a view that render a completion checkbox.
Toggleable(view) ==
    CASE view = "today" -> {"tasks"}
      [] view = "goals" -> {"goals"}
      [] view = "milestones" -> {"milestones"}

\* --------------------------------------------------- history of C3's case
Tracked(list, id) == dbl.n # 0 /\ dbl.list = list /\ dbl.id = id

\* Something other than the two toggles touched the tracked record.
Disturbed(hit) == IF hit /\ dbl.n \in 1..3 THEN [dbl EXCEPT !.clean = FALSE] ELSE dbl

DisturbedByWrite(tbl, ids) ==
    Disturbed(dbl.n # 0 /\ TableOf(dbl.list) = tbl /\ dbl.id \in ids)

DblOnToggle(list, id, cur) ==
    IF \E u \in Pending(updates) : u.list = list /\ u.id = id
    THEN IF Tracked(list, id) THEN NoDbl ELSE dbl
    ELSE IF Tracked(list, id) /\ dbl.n = 2
         THEN [dbl EXCEPT !.n = 3]
         ELSE [n |-> 1, list |-> list, id |-> id, orig |-> cur, clean |-> TRUE]

DblOnServe(u, hit) ==
    IF Tracked(u.list, u.id) /\ ~u.dead THEN Disturbed(~hit) ELSE DisturbedByWrite(TableOf(u.list), {u.id})

DblOnResolve(u) ==
    IF Tracked(u.list, u.id) /\ dbl.n \in {1, 3} /\ ~u.dead
    THEN IF u.err THEN NoDbl ELSE [dbl EXCEPT !.n = dbl.n + 1]
    ELSE dbl

\* --------------------------------------- history of overlapping toggles
\* A group starts with a toggle of a record that has no update in flight, and
\* is followed while every further toggle of the record is issued before any
\* update of the group has resolved.
InFlightFor(list, id) ==
    {u \in Pending(updates) : u.list = list /\ u.id = id /\ ~u.dead}

InGroup(list, id) == grp.on /\ grp.list = list /\ grp.id = id

Outcome(o, err) ==
    CASE o = "none" -> IF err THEN "err" ELSE "ok"
      [] o = "ok" -> IF err THEN "mixed" ELSE "ok"
      [] o = "err" -> IF err THEN "err" ELSE "mixed"
      [] o = "mixed" -> "mixed"

GrpOnToggle(list, id, cur) ==
    IF "toggles" \notin watch THEN grp
    ELSE IF InFlightFor(list, id) = {}
    THEN [on |-> TRUE, list |-> list, id |-> id, orig |-> cur, raced |-> FALSE,
          outcome |-> "none", loadErr |-> FALSE]
    ELSE IF InGroup(list, id)
         THEN IF grp.outcome = "none" THEN [grp EXCEPT !.raced = TRUE] ELSE NoGrp
         ELSE grp

GrpOnResolve(u) ==
    IF InGroup(u.list, u.id) /\ ~u.dead
    THEN IF grp.raced THEN [grp EXCEPT !.outcome = Outcome(grp.outcome, u.err)]
                      ELSE NoGrp
    ELSE grp

GrpOnLoad(r) ==
    IF grp.on /\ grp.list = r.list /\ r.err /\ ~r.dead
    THEN [grp EXCEPT !.loadErr = TRUE]
    ELSE grp

\* ------------------------------------------------- identities and profiles
\* COALESCE(a, b)
Coalesce(a, b) == IF a = NoName THEN b ELSE a

\* Variant: the trigger stores the supplied name as it is.
HandleNewUserRaw(id, meta) == [id |-> id, full_name |-> meta]

\* handle_new_user(): INSERT INTO public.profiles (id, full_name)
\* VALUES (NEW.id, COALESCE(NEW.raw_user_meta_data->>'full_name', ''))
HandleNewUser(id, meta) == [id |-> id, full_name |-> Coalesce(meta, "")]

\* id UUID PRIMARY KEY REFERENCES auth.users(id)
ProfileKeyOk(row) == row.id \in identities /\ \A p \in profiles : p.id # row.id

\* "Users can insert own profile": WITH CHECK (auth.uid() = id)
ProfileInsertCheck(caller, row) == caller # NoUser /\ caller = row.id

\* "Users can update own profile": USING (auth.uid() = id)
ProfileUpdateUsing(caller, p) == caller # NoUser /\ caller = p.id

\* Row security is enabled and no policy is FOR DELETE: a delete sees no row.
ProfileDeleteUsing(caller, p) == FALSE

\* The rows of an identity in the four tables.
OwnedBy(i) == {r \in store : r.user_id = i}

\* ------------------------------------------------------------------- Init
\* The page is opened by user `u` on a store that holds `seed`: Dashboard
\* mounts TodayView, whose effect fetches and subscribes.
InitClient(seed, u, w) ==
    /\ watch = w
    /\ store = seed
    /\ nextId = Cardinality(seed) + 1
    /\ lastInsert = NoInsert
    /\ lastDelete = NoDelete
    /\ user = u
    /\ today = 1
    /\ activeView = "today"
    /\ local = EmptyLists
    /\ channels = EffectChannels("today", u)
    /\ signals = [k \in ChannelKeys |-> 0]
    /\ reads = Fetched(EmptyBag, "today", u, 1)
    /\ updates = EmptyBag
    /\ toast = "none"
    /\ modalOpen = FALSE
    /\ loading = FALSE
    /\ inserts = EmptyBag
    /\ dbl = NoDbl
    /\ grp = NoGrp
    /\ overtaken = "none"

\* The same with every identity signed up, none with a name.
InitWatching(seed, u, w) ==
    /\ InitClient(seed, u, w)
    /\ identities = Users
    /\ profiles = {HandleNewUser(i, NoName) : i \in Users}

\* The same with no history of toggle groups and load order kept.
InitWith(seed, u) == InitWatching(seed, u, {})

Init == InitWith({}, "A")

\* ------------------------------------------------- Dashboard / view effects
\* Navbar: setActiveView(v). The old view unmounts (its cleanup runs, its
\* state is dropped); the new view mounts with empty lists and runs its effect.
SwitchView(v) ==
    /\ v # activeView
    /\ BagCardinality(reads) + Needed(v, user) <= MaxReads
    /\ activeView' = v
    /\ local' = EmptyLists
    /\ channels' = CleanedUp(channels, activeView, user) \cup EffectChannels(v, user)
    /\ signals' = Kept(signals, channels')
    /\ reads' = Fetched(UnmountedReads(reads), v, user, today)
    /\ updates' = UnmountedUpdates(updates)
    /\ dbl' = NoDbl
    /\ grp' = NoGrp
    /\ overtaken' = "none"
    /\ UNCHANGED <<storeVars, user, today, modalVars, authVars, watch>>
    /\ toast' = "none"

\* The effect's dependencies of a view: [user, today] for Today, [user] else.
DependsOnToday(view) == view = "today"

\* useAuth().user changes: the mounted view's effect is cleaned up and re-run
\* for the new user; the view keeps its lists.
UserChange(u) ==
    /\ u # user
    /\ BagCardinality(reads) + Needed(activeView, u) <= MaxReads
    /\ user' = u
    /\ channels' = CleanedUp(channels, activeView, user) \cup EffectChannels(activeView, u)
    /\ signals' = Kept(signals, channels')
    /\ reads' = Fetched(TornDown(reads), activeView, u, today)
    /\ UNCHANGED <<storeVars, today, activeView, local, updates, modalVars, dbl>>
    /\ UNCHANGED <<watch, authVars, grp, overtaken>>
    /\ toast' = "none"

\* A render on the next calendar day: `today` changes, and the effect of a
\* view that depends on it is cleaned up and re-run.
DayRollover ==
    /\ today + 1 \in Dates
    /\ today' = today + 1
    /\ IF DependsOnToday(activeView)
       THEN /\ BagCardinality(reads) + Needed(activeView, user) <= MaxReads
            /\ channels' = CleanedUp(channels, activeView, user)
                              \cup EffectChannels(activeView, user)
            /\ signals' = Kept(signals, channels')
            /\ reads' = Fetched(TornDown(reads), activeView, user, today')
       ELSE UNCHANGED <<channels, signals, reads>>
    /\ UNCHANGED <<storeVars, user, activeView, local, updates, modalVars, dbl>>
    /\ UNCHANGED <<watch, authVars, grp, overtaken>>
    /\ toast' = "none"

\* A channel's callback: () => { fetchX() }.
Deliver(k) ==
    /\ k \in channels
    /\ signals[k] > 0
    /\ BagCardinality(reads) < MaxReads
    /\ signals' = [signals EXCEPT ![k] = signals[k] - 1]
    /\ reads' = Issue(reads, ListOfTable(k.tbl), k.user, today, user)
    /\ UNCHANGED <<storeVars, user, today, activeView, local, channels, updates,
                   modalVars, dbl>>
    /\ UNCHANGED <<watch, authVars, grp, overtaken>>
    /\ toast' = "none"

\* ------------------------------------------------------------------ loads
\* The store answers a select, or the request fails.
ReadServe(r) ==
    /\ r \in Pending(reads)
    /\ r.phase = "req"
    /\ \/ reads' = Put(Take(reads, r), [r EXCEPT !.phase = "resp", !.err = TRUE])
       \/ \E s \in SelectResult(r.caller, r.list, r.user, r.date) :
             reads' = Put(Take(reads, r), [r EXCEPT !.phase = "resp", !.data = s])
    /\ UNCHANGED <<storeVars, user, today, activeView, local, channels, signals,
                   updates, modalVars, dbl>>
    /\ UNCHANGED <<watch, authVars, grp, overtaken>>
    /\ toast' = "none"

\* Variant: setX(data || []) outside the else branch.
AppliedClearing(r) ==
    IF r.dead THEN local
    ELSE [local EXCEPT ![r.list] = IF r.err THEN <<>> ELSE r.data]

\* Variant: a response is dropped when a load issued later was applied.
AppliedLatestIssued(r) ==
    IF r.err \/ r.dead \/ r.passed THEN local ELSE [local EXCEPT ![r.list] = r.data]

\* if (error) toast.error(...) else setX(data || [])
Applied(r) == IF r.err \/ r.dead THEN local ELSE [local EXCEPT ![r.list] = r.data]

\* fetchData goes on to its second select after the milestones response.
Continued(rs, r) ==
    IF r.list = "milestones"
    THEN Put(Followed(rs, "mgoals"),
             [NewRead("mgoals", r.user, r.date, user)
                 EXCEPT !.stale = r.stale, !.dead = r.dead])
    ELSE rs

ReadResolve(r) ==
    /\ r \in Pending(reads)
    /\ r.phase = "resp"
    /\ local' = Applied(r)
    /\ toast' = IF r.err THEN ToastLoad(r.list) ELSE "none"
    /\ reads' = Continued(Passing(Take(reads, r), r), r)
    /\ overtaken' = IF r.passed /\ ~r.err /\ ~r.dead THEN r.list ELSE "none"
    /\ grp' = GrpOnLoad(r)
    /\ UNCHANGED <<watch, authVars>>
    /\ dbl' = Disturbed(~r.err /\ ~r.dead /\ dbl.n # 0 /\ dbl.list = r.list)
    /\ UNCHANGED <<storeVars, user, today, activeView, channels, signals, updates,
                   modalVars>>

\* ---------------------------------------------------------------- toggles
\* onCheckedChange={() => toggleX(x.id, x.completed)} on the i-th record shown.
Toggle(list, i) ==
    /\ list \in Toggleable(activeView)
    /\ i \in 1..Len(local[list])
    /\ BagCardinality(updates) < MaxUpdates
    /\ LET id == local[list][i].id
           cur == local[list][i].completed IN
       /\ local' = [local EXCEPT ![list] = MapCompleted(local[list], id, NewStatus(cur))]
       /\ updates' = Put(updates,
                         [phase |-> "req", list |-> list, id |-> id,
                          newStatus |-> NewStatus(cur), currentStatus |-> cur,
                          caller |-> user, dead |-> FALSE, err |-> FALSE,
                          matched |-> FALSE])
       /\ dbl' = DblOnToggle(list, id, cur)
       /\ grp' = GrpOnToggle(list, id, cur)
    /\ UNCHANGED <<storeVars, user, today, activeView, channels, signals, reads,
                   modalVars>>
    /\ UNCHANGED <<watch, authVars, overtaken>>
    /\ toast' = "none"

\* History: the update found its row.
Matched(u) == UpdateTargets(u.caller, TableOf(u.list), u.id) # {}

\* The store executes the update, or the request fails. An update that
\* matches no row returns no error.
UpdateServe(u) ==
    /\ u \in Pending(updates)
    /\ u.phase = "req"
    /\ \/ /\ updates' = Put(Take(updates, u), [u EXCEPT !.phase = "resp", !.err = TRUE])
          /\ UNCHANGED <<storeVars, signals, dbl>>
       \/ /\ updates' = Put(Take(updates, u),
                            [u EXCEPT !.phase = "resp", !.matched = Matched(u)])
          /\ StoreUpdate(u.caller, TableOf(u.list), u.id, u.newStatus)
          /\ dbl' = DblOnServe(u, Matched(u))
    /\ UNCHANGED <<user, today, activeView, local, channels, reads, modalVars>>
    /\ UNCHANGED <<watch, authVars, grp, overtaken>>
    /\ toast' = "none"

\* if (error) { toast.error(...); setX(prev => prev.map(... currentStatus ...)) }
AfterUpdate(u) ==
    IF u.err /\ ~u.dead
    THEN [local EXCEPT ![u.list] = MapCompleted(local[u.list], u.id, Reverted(u))]
    ELSE local

\* Variant: the handler fetches the list again when its update succeeded.
UpdateResolveRefetching(u) ==
    /\ u \in Pending(updates)
    /\ u.phase = "resp"
    /\ local' = AfterUpdate(u)
    /\ grp' = GrpOnResolve(u)
    /\ UNCHANGED <<watch, authVars, overtaken>>
    /\ toast' = IF u.err THEN ToastUpdate(u.list) ELSE "none"
    /\ updates' = Take(updates, u)
    /\ dbl' = DblOnResolve(u)
    /\ reads' = IF u.err \/ u.dead THEN reads ELSE Issue(reads, u.list, user, today, user)
    /\ UNCHANGED <<storeVars, user, today, activeView, channels, signals, modalVars>>

UpdateResolve(u) ==
    /\ u \in Pending(updates)
    /\ u.phase = "resp"
    /\ local' = AfterUpdate(u)
    /\ grp' = GrpOnResolve(u)
    /\ UNCHANGED <<watch, authVars, overtaken>>
    /\ toast' = IF u.err THEN ToastUpdate(u.list) ELSE "none"
    /\ updates' = Take(updates, u)
    /\ dbl' = DblOnResolve(u)
    /\ UNCHANGED <<storeVars, user, today, activeView, channels, signals, reads,
                   modalVars>>

\* ----------------------------------------------------------- AddItemModal
ToastAdd(tbl, err) ==
    CASE tbl = "tasks" -> IF err THEN "Failed to add task" ELSE "Task added!"
      [] tbl = "time_blocks" -> IF err THEN "Failed to add time block" ELSE "Time block added!"
      [] tbl = "goals" -> IF err THEN "Failed to add goal" ELSE "Goal added!"
      [] tbl = "milestones" -> IF err THEN "Failed to add milestone" ELSE "Milestone added!"

\* The rows a form can ask for: the columns its handler sends (user_id is
\* user.id, the Today forms send task_date / block_date = today, the
\* milestone form sends no goal_id).
FormRows(tbl, u, d) ==
    CASE tbl = "tasks" ->
            {NewRow(Null, tbl, u, d, Null, "none", Null, t) : t \in Titles}
      [] tbl = "time_blocks" ->
            {NewRow(Null, tbl, u, d, st, "none", Null, t) : st \in Starts, t \in Titles}
      [] tbl = "goals" ->
            {NewRow(Null, tbl, u, Null, Null, g, Null, t) : g \in GoalTypes, t \in Titles}
      [] tbl = "milestones" ->
            {NewRow(Null, tbl, u, Null, Null, "none", Null, t) : t \in Titles}

\* The floating action button: setModalOpen(true).
OpenModal ==
    /\ ~modalOpen
    /\ modalOpen' = TRUE
    /\ UNCHANGED <<storeVars, viewVars, signals, loading, inserts, dbl>>
    /\ UNCHANGED <<watch, authVars, grp, overtaken>>
    /\ toast' = "none"

\* The dialog is dismissed: onOpenChange(false).
CloseModal ==
    /\ modalOpen
    /\ modalOpen' = FALSE
    /\ UNCHANGED <<storeVars, viewVars, signals, loading, inserts, dbl>>
    /\ UNCHANGED <<watch, authVars, grp, overtaken>>
    /\ toast' = "none"

\* Variant: submit buttons that stay enabled while loading.
SubmitWhileLoading(tbl, row) ==
    /\ modalOpen
    /\ row \in FormRows(tbl, user, today)
    /\ IF user = NoUser
       THEN UNCHANGED <<loading, inserts>>
       ELSE /\ BagCardinality(inserts) < MaxInserts
            /\ loading' = TRUE
            /\ inserts' = Put(inserts,
                              [phase |-> "req", row |-> row, caller |-> user, err |-> FALSE])
    /\ UNCHANGED <<storeVars, viewVars, signals, modalOpen, dbl>>
    /\ UNCHANGED <<watch, authVars, grp, overtaken>>
    /\ toast' = "none"

\* handleAddX up to its await: the submit button is disabled while loading;
\* without a user the handler returns at once.
Submit(tbl, row) ==
    /\ modalOpen
    /\ ~loading
    /\ row \in FormRows(tbl, user, today)
    /\ IF user = NoUser
       THEN UNCHANGED <<loading, inserts>>
       ELSE /\ BagCardinality(inserts) < MaxInserts
            /\ loading' = TRUE
            /\ inserts' = Put(inserts,
                              [phase |-> "req", row |-> row, caller |-> user, err |-> FALSE])
    /\ UNCHANGED <<storeVars, viewVars, signals, modalOpen, dbl>>
    /\ UNCHANGED <<watch, authVars, grp, overtaken>>
    /\ toast' = "none"

\* The server assigns id and created_at.
Stamped(row) == [row EXCEPT !.id = nextId, !.created_at = nextId, !.updated_at = nextId]

\* The store executes the insert, or the request fails.
InsertServe(q) ==
    /\ q \in Pending(inserts)
    /\ q.phase = "req"
    /\ \/ /\ inserts' = Put(Take(inserts, q), [q EXCEPT !.phase = "resp", !.err = TRUE])
          /\ UNCHANGED <<storeVars, signals>>
       \/ /\ nextId <= MaxRows
          /\ inserts' = Put(Take(inserts, q),
                            [q EXCEPT !.phase = "resp",
                                      !.err = ~InsertOk(q.caller, Stamped(q.row))])
          /\ StoreInsert(q.caller, Stamped(q.row))
    /\ UNCHANGED <<viewVars, modalOpen, loading, dbl>>
    /\ UNCHANGED <<watch, authVars, grp, overtaken>>
    /\ toast' = "none"

\* Variant: a handler that closes the modal after either outcome.
InsertResolveClosing(q) ==
    /\ q \in Pending(inserts)
    /\ q.phase = "resp"
    /\ toast' = ToastAdd(q.row.tbl, q.err)
    /\ modalOpen' = FALSE
    /\ loading' = FALSE
    /\ inserts' = Take(inserts, q)
    /\ UNCHANGED <<storeVars, viewVars, signals, dbl, grp, overtaken, watch, authVars>>

\* Variant: a handler that also appends the form's record to its list.
InsertResolveAppending(q) ==
    /\ q \in Pending(inserts)
    /\ q.phase = "resp"
    /\ UNCHANGED <<watch, authVars, grp, overtaken>>
    /\ toast' = ToastAdd(q.row.tbl, q.err)
    /\ modalOpen' = IF q.err THEN modalOpen ELSE FALSE
    /\ loading' = FALSE
    /\ inserts' = Take(inserts, q)
    /\ local' = IF q.err THEN local
                ELSE [local EXCEPT ![ListOfTable(q.row.tbl)] = Append(@, q.row)]
    /\ UNCHANGED <<storeVars, user, today, activeView, channels, reads, updates,
                   signals, dbl>>

\* if (error) toast.error(...) else { toast.success(...); onOpenChange(false) }
\* setLoading(false)
InsertResolve(q) ==
    /\ q \in Pending(inserts)
    /\ q.phase = "resp"
    /\ UNCHANGED <<watch, authVars, grp, overtaken>>
    /\ toast' = ToastAdd(q.row.tbl, q.err)
    /\ modalOpen' = IF q.err THEN modalOpen ELSE FALSE
    /\ loading' = FALSE
    /\ inserts' = Take(inserts, q)
    /\ UNCHANGED <<storeVars, viewVars, signals, dbl>>

\* ------------------------------------------ other sessions on the same store
\* The rows an insert statement may supply for a table.
ApiRows(tbl) ==
    CASE tbl = "tasks" ->
            {NewRow(Null, tbl, o, d, Null, "none", Null, t) :
                o \in Users, d \in Dates, t \in Titles}
      [] tbl = "time_blocks" ->
            {NewRow(Null, tbl, o, d, st, "none", Null, t) :
                o \in Users, d \in Dates, st \in Starts, t \in Titles}
      [] tbl = "goals" ->
            {NewRow(Null, tbl, o, Null, Null, g, Null, t) :
                o \in Users, g \in GoalTypes, t \in Titles}
      [] tbl = "milestones" ->
            {NewRow(Null, tbl, o, Null, Null, "none", gid, t) :
                o \in Users, gid \in 0..MaxRows, t \in Titles}

\* An insert statement by any session.
ApiInsert(caller, row) ==
    /\ nextId <= MaxRows
    /\ StoreInsert(caller, Stamped(row))
    /\ UNCHANGED <<viewVars, modalVars, dbl>>
    /\ UNCHANGED <<watch, authVars, grp, overtaken>>
    /\ toast' = "none"

\* An update of completed by any session.
ApiUpdate(caller, tbl, id, v) ==
    /\ StoreUpdate(caller, tbl, id, v)
    /\ dbl' = DisturbedByWrite(tbl, {id})
    /\ UNCHANGED <<viewVars, modalVars>>
    /\ UNCHANGED <<watch, authVars, grp, overtaken>>
    /\ toast' = "none"

\* A delete statement by any session.
ApiDelete(caller, tbl, id) ==
    /\ StoreDelete(caller, tbl, id)
    /\ dbl' = DisturbedByWrite(tbl, RowIds(DeleteTargets(caller, tbl, id)
                                           \cup Cascade(DeleteTargets(caller, tbl, id))))
    /\ UNCHANGED <<viewVars, modalVars>>
    /\ UNCHANGED <<watch, authVars, grp, overtaken>>
    /\ toast' = "none"

\* ------------------------------------------------- identities and profiles
\* INSERT INTO auth.users: the trigger on_auth_user_created runs
\* handle_new_user() in the same transaction; an error in it aborts the insert.
SignUp(i, meta) ==
    /\ i \in Users \ identities
    /\ meta \in Names \cup {NoName}
    /\ IF \E p \in profiles : p.id = i
       THEN UNCHANGED authVars
       ELSE /\ identities' = identities \cup {i}
            /\ profiles' = profiles \cup {HandleNewUser(i, meta)}
    /\ UNCHANGED <<storeVars, viewVars, signals, modalVars, dbl, grp, overtaken, watch>>
    /\ toast' = "none"

\* DELETE FROM auth.users: ON DELETE CASCADE removes the identity's profile
\* and its rows, and through them the milestones of its goals.
DeleteIdentity(i) ==
    /\ i \in identities
    /\ identities' = identities \ {i}
    /\ profiles' = {p \in profiles : p.id # i}
    /\ LET gone == OwnedBy(i) \cup Cascade(OwnedBy(i)) IN
          /\ store' = store \ gone
          /\ signals' = Notified(gone)
          /\ dbl' = Disturbed(\E r \in gone : /\ dbl.n # 0 /\ r.tbl = TableOf(dbl.list)
                                               /\ r.id = dbl.id)
    /\ UNCHANGED <<nextId, lastInsert, lastDelete, viewVars, modalVars, grp,
                   overtaken, watch>>
    /\ toast' = "none"

\* INSERT INTO public.profiles by a session.
ProfileInsert(caller, row) ==
    /\ profiles' = IF ProfileInsertCheck(caller, row) /\ ProfileKeyOk(row)
                   THEN profiles \cup {row}
                   ELSE profiles
    /\ UNCHANGED <<identities, storeVars, viewVars, signals, modalVars, dbl, grp,
                   overtaken, watch>>
    /\ toast' = "none"

\* UPDATE public.profiles SET full_name = <name> WHERE id = <id> by a session.
ProfileUpdate(caller, id, name) ==
    /\ profiles' = {IF p.id = id /\ ProfileUpdateUsing(caller, p)
                    THEN [p EXCEPT !.full_name = name] ELSE p : p \in profiles}
    /\ UNCHANGED <<identities, storeVars, viewVars, signals, modalVars, dbl, grp,
                   overtaken, watch>>
    /\ toast' = "none"

\* DELETE FROM public.profiles WHERE id = <id> by a session.
ProfileDelete(caller, id) ==
    /\ profiles' = {p \in profiles : ~(p.id = id /\ ProfileDeleteUsing(caller, p))}
    /\ UNCHANGED <<identities, storeVars, viewVars, signals, modalVars, dbl, grp,
                   overtaken, watch>>
    /\ toast' = "none"

\* ---------------------------------------------------------- specifications
\* Each specification is the program in one setting: the store it is opened
\* on, and which of its operations and which other sessions act.
ATask(id, d) == Seeded(NewRow(id, "tasks", "A", d, Null, "none", Null, "Learn Spanish"))
AGoal(id) == Seeded(NewRow(id, "goals", "A", Null, Null, "yearly", Null, "Learn Spanish"))
AMilestone(id, gid) ==
    Seeded(NewRow(id, "milestones", "A", Null, Null, "none", gid, "Learn Spanish"))

BTask(id, d) == Seeded(NewRow(id, "tasks", "B", d, Null, "none", Null, "Learn Spanish"))
SeedTasks == {ATask(1, 1), BTask(2, 1)}
SeedGoals == {AGoal(1), AMilestone(2, 1)}
ABlock(id, d, st) ==
    Seeded(NewRow(id, "time_blocks", "A", d, st, "none", Null, "Learn Spanish"))
SeedViews == {AGoal(1)}
SeedCreate == {ATask(1, 2), ABlock(2, 1, 2)}

\* Rows of one table an insert statement may supply, on day 1.
StoreRows(t) ==
    {r \in ApiRows(t) : r.date \in {Null, 1} /\ r.start \in {Null, 1}
                        /\ r.goal_type # "monthly"}

\* The view synchronizer of TodayView: loads, signals, toggles, and other
\* sessions of the same user writing tasks.
Next ==
    \/ \E k \in ChannelKeys : Deliver(k)
    \/ \E r \in Pending(reads) : ReadServe(r)
    \/ \E r \in Pending(reads) : ReadResolve(r)
    \/ \E l \in Lists, i \in 1..MaxRows : Toggle(l, i)
    \/ \E u \in Pending(updates) : UpdateServe(u)
    \/ \E u \in Pending(updates) : UpdateResolve(u)
    \/ \E r \in store, v \in BOOLEAN : ApiUpdate("A", r.tbl, r.id, v)
    \/ \E r \in store : ApiDelete("A", r.tbl, r.id)

Spec == InitWith(SeedTasks, "A") /\ [][Next]_vars

\* The store under statements of any session, signed in or not, on any
\* table; the page is open with nobody signed in.
NextStore ==
    \/ \E c \in Callers, t \in Tables : \E row \in StoreRows(t) : ApiInsert(c, row)
    \/ \E c \in Callers, r \in store, v \in BOOLEAN : ApiUpdate(c, r.tbl, r.id, v)
    \/ \E c \in Callers, r \in store : ApiDelete(c, r.tbl, r.id)

SpecStore == InitWith(SeedGoals, NoUser) /\ [][NextStore]_vars

\* Creating records: AddItemModal over TodayView across a change of day, on
\* a store that holds a task dated the next day and a time block of the day.
NextCreate ==
    \/ OpenModal
    \/ CloseModal
    \/ \E t \in {"tasks", "time_blocks"} :
          \E row \in FormRows(t, user, today) : row.start # 2 /\ Submit(t, row)
    \/ \E q \in Pending(inserts) : InsertServe(q)
    \/ \E q \in Pending(inserts) : InsertResolve(q)
    \/ DayRollover
    \/ \E k \in ChannelKeys : Deliver(k)
    \/ \E r \in Pending(reads) : ReadServe(r)
    \/ \E r \in Pending(reads) : ReadResolve(r)

SpecCreate == InitWith(SeedCreate, "A") /\ [][NextCreate]_vars

\* The Dashboard's views and their effects: view switches, a change of
\* user, and the owner's other session writing.
NextViews ==
    \/ \E v \in Views : SwitchView(v)
    \/ \E u \in Callers : UserChange(u)
    \/ \E k \in ChannelKeys : Deliver(k)
    \/ \E r \in Pending(reads) : ReadServe(r)
    \/ \E r \in Pending(reads) : ReadResolve(r)
    \/ \E r \in store, v \in BOOLEAN : ApiUpdate(r.user_id, r.tbl, r.id, v)

SpecViews == InitWith(SeedViews, "A") /\ [][NextViews]_vars

\* TodayView with the order of its loads recorded; another session of the
\* same user writes.
NextLoads ==
    \/ \E k \in ChannelKeys : Deliver(k)
    \/ \E r \in Pending(reads) : ReadServe(r)
    \/ \E r \in Pending(reads) : ReadResolve(r)
    \/ \E r \in store, v \in BOOLEAN : ApiUpdate("A", r.tbl, r.id, v)

SpecLoads == InitWatching(SeedTasks, "A", {"loads"}) /\ [][NextLoads]_vars

\* TodayView over one task of the user, with the groups of overlapping
\* toggles recorded; nobody else writes.
SeedRace == {ATask(1, 1)}

NextRace ==
    \/ \E k \in ChannelKeys : Deliver(k)
    \/ \E r \in Pending(reads) : ReadServe(r)
    \/ \E r \in Pending(reads) : ReadResolve(r)
    \/ \E l \in Lists, i \in 1..MaxRows : Toggle(l, i)
    \/ \E u \in Pending(updates) : UpdateServe(u)
    \/ \E u \in Pending(updates) : UpdateResolve(u)

SpecRace == InitWatching(SeedRace, "A", {"toggles"}) /\ [][NextRace]_vars

\* The Goals view and the modal on a store that starts empty: the user
\* goes to the Goals view and creates yearly goals; another session of the
\* user marks the first goal completed and deletes the second.
NextNotify ==
    \/ SwitchView("goals")
    \/ OpenModal
    \/ \E row \in FormRows("goals", user, today) :
          row.goal_type = "yearly" /\ Submit("goals", row)
    \/ \E q \in Pending(inserts) : InsertServe(q)
    \/ \E q \in Pending(inserts) : InsertResolve(q)
    \/ \E k \in ChannelKeys : Deliver(k)
    \/ \E r \in Pending(reads) : ReadServe(r)
    \/ \E r \in Pending(reads) : ReadResolve(r)
    \/ \E r \in store : r.id = 1 /\ ~r.completed /\ ApiUpdate("A", r.tbl, r.id, TRUE)
    \/ \E r \in store : r.id = 2 /\ ApiDelete("A", r.tbl, r.id)

SpecNotify == Init /\ [][NextNotify]_vars

\* The three views on a store that holds two records of each kind; the user
\* switches views.
BMilestone(id, gid) ==
    Seeded(NewRow(id, "milestones", "B", Null, Null, "none", gid, "Learn Spanish"))

SeedOrder ==
    {ATask(1, 1), ATask(2, 1), ABlock(3, 1, 2), ABlock(4, 1, 1),
     AGoal(5), AGoal(6), AMilestone(7, 5), AMilestone(8, Null), BMilestone(9, Null)}

NextOrder ==
    \/ \E v \in Views : SwitchView(v)
    \/ \E r \in Pending(reads) : ReadServe(r)
    \/ \E r \in Pending(reads) : ReadResolve(r)

SpecOrder == InitWith(SeedOrder, "A") /\ [][NextOrder]_vars

\* TodayView over two tasks of the user and one of another user; the user
\* toggles the first task, and another session of the user deletes it.
SeedFrame == {ATask(1, 1), ATask(2, 1), BTask(3, 1)}

NextFrame ==
    \/ \E k \in ChannelKeys : Deliver(k)
    \/ \E r \in Pending(reads) : ReadServe(r)
    \/ \E r \in Pending(reads) : ReadResolve(r)
    \/ \E l \in Lists, i \in 1..MaxRows :
          i <= Len(local[l]) /\ local[l][i].id = 1 /\ Toggle(l, i)
    \/ \E u \in Pending(updates) : UpdateServe(u)
    \/ \E u \in Pending(updates) : UpdateResolve(u)
    \/ \E r \in store : r.id = 1 /\ ApiDelete("A", r.tbl, r.id)

SpecFrame == InitWith(SeedFrame, "A") /\ [][NextFrame]_vars

\* AddItemModal with its four forms on a store that starts empty; the user
\* is signed out at first and signs in and out; the modal is opened,
\* dismissed and submitted at any moment. The view's loads stay unanswered.
NextModal ==
    \/ OpenModal
    \/ CloseModal
    \/ \E t \in Tables : \E row \in FormRows(t, user, today) : Submit(t, row)
    \/ \E q \in Pending(inserts) : InsertServe(q)
    \/ \E q \in Pending(inserts) : InsertResolve(q)
    \/ \E u \in {"A", NoUser} : UserChange(u)

SpecModal == InitWith({}, NoUser) /\ [][NextModal]_vars

\* Identities sign up and are deleted; sessions, also of deleted identities,
\* write profiles and tasks. Nobody has signed up at the start.
InitAuth ==
    /\ InitClient({}, NoUser, {})
    /\ identities = {}
    /\ profiles = {}

NextAuth ==
    \/ \E i \in Users, meta \in Names \cup {NoName} : SignUp(i, meta)
    \/ \E i \in Users : DeleteIdentity(i)
    \/ \E c \in Callers, i \in Users, n \in Names \cup {NoName} :
          ProfileInsert(c, [id |-> i, full_name |-> n])
    \/ \E c \in Callers, i \in Users, n \in Names \cup {NoName} : ProfileUpdate(c, i, n)
    \/ \E c \in Callers, i \in Users : ProfileDelete(c, i)
    \/ \E c \in Users : \E row \in StoreRows("tasks") : ApiInsert(c, row)

SpecAuth == InitAuth /\ [][NextAuth]_vars

\* ----------------------------------------------------------------- claims
ListIds(s) == {s[i].id : i \in 1..Len(s)}

\* The record `id` of a list shows completion `v` (if the list holds it).
ShowsCompleted(s, id, v) == \A i \in 1..Len(s) : s[i].id = id => s[i].completed = v

\* C1: isolation. Every row a read returns was asked for by the row's owner,
\* and every row a statement writes or removes is owned by the session that
\* issued the statement.
C1_Isolation ==
    /\ \A r \in Pending(reads) :
          (r.phase = "resp" /\ r.list # "mgoals") =>
              \A row \in SeqRows(r.data) : row.user_id = r.caller
    /\ \A row \in store : row.by = row.user_id
    /\ lastDelete.owners \subseteq {lastDelete.caller}

\* C2: when a toggle's update fails, the handler ends with the record's local
\* completed equal to the value it had when the toggle started, and raises
\* the error toast.
C2_FailedToggleReverts ==
    [][\A u \in Pending(updates) :
          (u.phase = "resp" /\ u.err /\ ~u.dead /\ UpdateResolve(u)) =>
              /\ ShowsCompleted(local'[u.list], u.id, u.currentStatus)
              /\ toast' = ToastUpdate(u.list)]_vars

C2_Witness ==
    /\ toast = ToastUpdate("tasks")
    /\ 1 \in ListIds(local["tasks"])
    /\ \E row \in store : row.id = 1

\* C3 as stated: when the second of two toggles of one record, each awaited
\* and each without error, has finished, the list and the store hold the
\* completion value the list showed before the first.
C3_TwiceRestores ==
    [][(dbl.n = 3 /\ dbl'.n = 4) =>
          /\ dbl.id \in ListIds(local'[dbl.list])
          /\ ShowsCompleted(local'[dbl.list], dbl.id, dbl.orig)
          /\ \E row \in store' : /\ row.tbl = TableOf(dbl.list) /\ row.id = dbl.id
                                 /\ row.completed = dbl.orig]_vars

\* C3 amended: the same, when between the start of the first toggle and the
\* end of the second no load response was applied to the list, no other
\* statement wrote the record, and both updates found the record's row.
C3_TwiceRestoresUndisturbed ==
    [][(dbl.n = 3 /\ dbl'.n = 4 /\ dbl'.clean) =>
          /\ dbl.id \in ListIds(local'[dbl.list])
          /\ ShowsCompleted(local'[dbl.list], dbl.id, dbl.orig)
          /\ \E row \in store' : /\ row.tbl = TableOf(dbl.list) /\ row.id = dbl.id
                                 /\ row.completed = dbl.orig]_vars

C3_Witness == dbl.n = 4 /\ dbl.clean

\* C4: a step that deletes a goal removes every milestone that referred to
\* it and keeps every other milestone as it was.
C4_GoalDeleteCascades ==
    [][\A g \in store :
          (g.tbl = "goals" /\ g.id \notin RowIds(store')) =>
              \A m \in store :
                  m.tbl = "milestones" =>
                      IF m.goal_id = g.id THEN m.id \notin RowIds(store')
                                          ELSE m \in store']_vars

C4_Witness ==
    /\ lastDelete.tbl = "goals"
    /\ lastDelete.n >= 2
    /\ \E m \in store : m.tbl = "milestones" /\ m.goal_id = Null

\* A select answered in this step: request r became response r2.
Served(r, r2) ==
    /\ r.phase = "req"
    /\ r2.phase = "resp"
    /\ ~r2.err
    /\ [r2 EXCEPT !.phase = "req", !.data = <<>>] = r
    /\ reads' = Put(Take(reads, r), r2)

\* C5: a successful load of the Today tasks (time blocks) by the owner holds
\* every stored task (time block) of the owner dated the load's day, and no
\* row of another day.
C5_TodayScoped ==
    [][\A r \in Pending(reads) : \A r2 \in Pending(reads') :
          (Served(r, r2) /\ r.list \in {"tasks", "timeBlocks"} /\ r.caller = r.user) =>
              /\ \A row \in store :
                    (row.tbl = TableOf(r.list) /\ row.user_id = r.user
                     /\ row.date = r.date) => row \in SeqRows(r2.data)
              /\ \A row \in SeqRows(r2.data) : row.date = r.date]_vars

C5_Witness ==
    \E r \in Pending(reads) :
        /\ r.phase = "resp" /\ ~r.err /\ r.list = "tasks" /\ r.date = today
        /\ \E row \in SeqRows(r.data) : row \notin SeedCreate
        /\ \E row \in store : row.tbl = "tasks" /\ row.date # r.date

\* C6: an insert whose user_id is not the caller's identity is rejected, and
\* no stored row was inserted by a session other than the one it names.
C6_InsertChecked ==
    /\ lastInsert.supplied # lastInsert.caller => ~lastInsert.ok
    /\ \A row \in store : row.created_by = row.user_id

C6_Witness ==
    /\ lastInsert.caller \in Users
    /\ lastInsert.supplied # lastInsert.caller
    /\ ~lastInsert.ok

\* C7: no step of a create handler changes a list, and a record enters a
\* list only in the step that applies a load response to that list.
C7_CreateLeavesLists ==
    [][/\ \A q \in Pending(inserts) :
             (InsertServe(q) \/ InsertResolve(q)) => local' = local
       /\ (loading' /\ ~loading) => local' = local
       /\ \A l \in Lists :
             ~(ListIds(local'[l]) \subseteq ListIds(local[l])) =>
                 \E r \in Pending(reads) :
                     r.list = l /\ r.phase = "resp" /\ ReadResolve(r)]_vars

C7_Witness ==
    /\ toast = ToastAdd("tasks", FALSE)
    /\ \E row \in store :
          /\ row \notin SeedCreate /\ row.tbl = "tasks" /\ row.date = today
          /\ row.id \notin ListIds(local["tasks"])

\* C8: when a toggle's update matched no row, the handler ends with the
\* record's local completed equal to the value it had when the toggle started.
C8_MissedUpdateReverts ==
    [][\A u \in Pending(updates) :
          (u.phase = "resp" /\ ~u.err /\ ~u.matched /\ ~u.dead /\ UpdateResolve(u)) =>
              ShowsCompleted(local'[u.list], u.id, u.currentStatus)]_vars

\* C9: a response to a read whose effect has been cleaned up changes no list.
C9_StaleResponseDiscarded ==
    [][\A r \in Pending(reads) : (r.stale /\ ReadResolve(r)) => local' = local]_vars

\* C10: the live channels are exactly the channels of the displayed view's
\* effect for the current user.
C10_ChannelsOfView ==
    /\ channels = EffectChannels(activeView, user)
    /\ \A k \in ChannelKeys : k \notin channels => signals[k] = 0

C10_Witness ==
    /\ activeView = "milestones"
    /\ user = "B"
    /\ channels = {[tbl |-> "milestones", user |-> "B"]}

\* C11: every successful response is applied when it resolves, whatever the
\* order of issue: after the step the list equals that response's rows, also
\* when a load issued later was applied before it.
C11_LastResolvedWins ==
    [][\A r \in Pending(reads) :
          (r.phase = "resp" /\ ~r.err /\ ~r.dead /\ ReadResolve(r)) =>
              local'[r.list] = r.data]_vars

C11_Witness ==
    /\ overtaken = "tasks"
    /\ \A r \in Pending(reads) : r.list # "tasks"
    /\ \E row \in store :
          /\ row.tbl = "tasks" /\ row.id = 1
          /\ ~ShowsCompleted(local["tasks"], 1, row.completed)

\* Nothing is in flight: no load, no update, no undelivered change signal.
Quiet ==
    /\ reads = EmptyBag
    /\ updates = EmptyBag
    /\ \A k \in ChannelKeys : signals[k] = 0

\* The list shows the record `id` with the completion value the store holds.
AgreesWithStore(list, id) ==
    \A i \in 1..Len(local[list]) :
        local[list][i].id = id =>
            \E row \in store : /\ row.tbl = TableOf(list) /\ row.id = id
                                /\ row.completed = local[list][i].completed

\* C12: after toggles of one record that were issued before the first of
\* them had resolved, and whose updates and re-fetches all succeeded, once
\* nothing is in flight the list shows the record with the store's value.
C12_RacingTogglesConverge ==
    (grp.on /\ grp.raced /\ grp.outcome = "ok" /\ ~grp.loadErr /\ Quiet) =>
        AgreesWithStore(grp.list, grp.id)

\* C16: after toggles of one record that were issued before any of them had
\* resolved and whose updates all failed, once they have all resolved the list
\* shows the record with the value it had before the first toggle, which the
\* store still holds.
C16_OverlappingFailuresRevert ==
    (grp.on /\ grp.raced /\ grp.outcome = "err" /\ InFlightFor(grp.list, grp.id) = {}) =>
        /\ ShowsCompleted(local[grp.list], grp.id, grp.orig)
        /\ \A row \in store :
              (row.tbl = TableOf(grp.list) /\ row.id = grp.id) => row.completed = grp.orig

\* The rows of the channel's (table, owner) that a step inserted, changed or
\* removed.
Written(k) ==
    {row \in (store \ store') \cup (store' \ store) :
        row.tbl = k.tbl /\ row.user_id = k.user}

C14_FailedLoadKeepsState ==
    [][\A r \in Pending(reads) :
          (r.phase = "resp" /\ r.err /\ ~r.dead /\ ReadResolve(r)) =>
              /\ local' = local
              /\ r.list # "mgoals" => toast' = ToastLoad(r.list)
              /\ activeView' = activeView
              /\ channels' = channels]_vars

C14_Witness ==
    /\ toast = ToastLoad("goals")
    /\ local["goals"] # <<>>
    /\ channels = EffectChannels("goals", user)
    /\ user = "A"

\* C15: an insert that fails adds no row and changes no list, and the step
\* that takes its response raises the "Failed to add" toast, changes neither
\* the store nor any list, and does not close the modal.
C15_FailedCreateKeepsState ==
    [][\A q \in Pending(inserts) :
          /\ (/\ q.phase = "req"
               /\ inserts' = Put(Take(inserts, q), [q EXCEPT !.phase = "resp", !.err = TRUE]))
                 => (store' = store /\ local' = local)
          /\ (q.phase = "resp" /\ q.err /\ InsertResolve(q)) =>
                 /\ toast' = ToastAdd(q.row.tbl, TRUE)
                 /\ store' = store
                 /\ local' = local
                 /\ modalOpen' = modalOpen]_vars

C15_Witness ==
    /\ toast = ToastAdd("tasks", TRUE)
    /\ modalOpen
    /\ ~loading
    /\ store = SeedCreate

\* C17: no milestone refers to a goal of another owner.
C17_MilestoneGoalSameOwner ==
    \A m \in store :
        (m.tbl = "milestones" /\ m.goal_id # Null) =>
            \A g \in store :
                (g.tbl = "goals" /\ g.id = m.goal_id) => g.user_id = m.user_id

\* The order the view's query asks for.
InListOrder(list, s) ==
    \A i, j \in 1..Len(s) :
        i < j =>
            CASE list = "tasks" -> s[i].created_at <= s[j].created_at
              [] list = "timeBlocks" -> s[i].start <= s[j].start
              [] list = "goals" -> s[i].created_at >= s[j].created_at
              [] list = "milestones" -> s[i].created_at >= s[j].created_at
              [] list = "mgoals" -> TRUE

\* C18: the step that takes a successful load's response sets the list to
\* the returned rows, which are in the list's order: tasks by creation time
\* ascending, time blocks by start time ascending, goals and milestones by
\* creation time descending.
C18_LoadedInOrder ==
    [][\A r \in Pending(reads) :
          (r.phase = "resp" /\ ~r.err /\ ~r.dead /\ ReadResolve(r)) =>
              /\ local'[r.list] = r.data
              /\ InListOrder(r.list, local'[r.list])]_vars

C18_Witness ==
    /\ local["tasks"] = <<ATask(1, 1), ATask(2, 1)>>
    /\ local["timeBlocks"] = <<ABlock(4, 1, 1), ABlock(3, 1, 2)>>

ProfilesOf(i) == {p \in profiles : p.id = i}

\* C19: each identity that exists has exactly one profile row and each that
\* does not has none; and the step that creates an identity adds exactly the
\* profile row keyed by it, named as supplied, or "" when no name is supplied.
C19_OneProfilePerIdentity ==
    /\ [](\A i \in Users : Cardinality(ProfilesOf(i)) = IF i \in identities THEN 1 ELSE 0)
    /\ [][\A i \in Users : \A meta \in Names \cup {NoName} :
             (SignUp(i, meta) /\ i \in identities') =>
                 profiles' = profiles \cup
                     {[id |-> i, full_name |-> IF meta = NoName THEN "" ELSE meta]}]_vars

\* A signed up without a name after B, who had signed up before, was deleted.
C19_Witness ==
    /\ identities = {"A"}
    /\ profiles = {[id |-> "A", full_name |-> ""]}
    /\ lastInsert.caller = "B"
    /\ lastInsert.ok

\* C20: the step of a toggle shows the negated value in the local list and
\* sends its update while the store and the loads in flight are as before;
\* the step that handles a successful update leaves the local lists and the
\* loads in flight as they are; and while a view stays mounted, a step that
\* issues a load is a notification callback.
C20_ToggleThenUpdate ==
    [][/\ \A l \in Lists : \A i \in 1..MaxRows :
             Toggle(l, i) =>
                 /\ local'[l][i].id = local[l][i].id
                 /\ local'[l][i].completed = ~local[l][i].completed
                 /\ BagCardinality(updates') = BagCardinality(updates) + 1
                 /\ \E u \in Pending(updates') :
                       /\ u.phase = "req" /\ u.list = l /\ u.id = local[l][i].id
                       /\ u.newStatus = local'[l][i].completed
                 /\ store' = store
                 /\ reads' = reads
       /\ \A u \in Pending(updates) :
             (UpdateResolve(u) /\ ~u.err) => local' = local /\ reads' = reads
       /\ (activeView' = activeView /\ BagCardinality(reads') > BagCardinality(reads))
             => \E k \in ChannelKeys : Deliver(k)]_vars

\* The task was toggled to completed and its update has succeeded and been
\* handled: no load is in flight, the notification is still to be delivered.
C20_Witness ==
    /\ dbl.n = 2
    /\ dbl.clean
    /\ updates = EmptyBag
    /\ reads = EmptyBag
    /\ signals[[tbl |-> "tasks", user |-> "A"]] > 0
    /\ Len(local["tasks"]) = 1
    /\ local["tasks"][1].completed
    /\ \E r \in store : r.id = local["tasks"][1].id /\ r.completed

\* Record b is record a with the columns `cols` (and the history of the last
\* writer) possibly changed.
SameBut(a, b, cols) ==
    [a EXCEPT !.completed = IF "completed" \in cols THEN b.completed ELSE @,
              !.updated_at = IF "updated_at" \in cols THEN b.updated_at ELSE @,
              !.by = b.by] = b

\* The lists keep their length and order, and only `completed` of the
\* records of `list` with id `id` may differ.
LocalFrame(list, id) ==
    \A m \in DOMAIN local :
        /\ Len(local'[m]) = Len(local[m])
        /\ \A j \in 1..Len(local[m]) :
              IF m = list /\ local[m][j].id = id
              THEN SameBut(local[m][j], local'[m][j], {"completed"})
              ELSE local'[m][j] = local[m][j]

\* The store keeps its rows, and only the columns `cols` of the row `id` of
\* the list's table may differ.
StoreFrame(list, id, cols) ==
    /\ Cardinality(store') = Cardinality(store)
    /\ \A r \in store : \E r2 \in store' :
          /\ r2.id = r.id
          /\ IF r.id = id /\ r.tbl = TableOf(list)
             THEN SameBut(r, r2, cols)
             ELSE r2 = r

\* The three steps of a toggle, the store's update changing `cols`.
ToggleFrame(cols) ==
    /\ \A l \in Lists : \A i \in 1..MaxRows :
          Toggle(l, i) => LocalFrame(l, local[l][i].id) /\ store' = store
    /\ \A u \in Pending(updates) :
          UpdateServe(u) => local' = local /\ StoreFrame(u.list, u.id, cols)
    /\ \A u \in Pending(updates) :
          UpdateResolve(u) => LocalFrame(u.list, u.id) /\ store' = store

\* C21 as stated: the optimistic write, the store's update and the revert of
\* a toggle change only `completed` of the record with the given id; the
\* lists keep length and order, every other record and column is unchanged
\* locally and in the store, and the list is unchanged when the id is not
\* in it.
C21_ToggleChangesOnlyCompleted == [][ToggleFrame({"completed"})]_vars

\* C21 as amended: the same, except that the store's update also stamps
\* updated_at of the row with the given id.
C21_ToggleFrame == [][ToggleFrame({"completed", "updated_at"})]_vars

\* Both tasks are shown; the first was toggled and its update has changed
\* its row, the second task and the other user's task are as created.
C21_Witness ==
    /\ Len(local["tasks"]) = 2
    /\ local["tasks"][1].id = 1 /\ local["tasks"][1].completed
    /\ local["tasks"][2] = ATask(2, 1)
    /\ \E r \in store : r.id = 1 /\ r.completed /\ r.updated_at # r.created_at
    /\ {ATask(2, 1), BTask(3, 1)} \subseteq store
    /\ updates = EmptyBag

\* C22: loading is true exactly while an insert of the modal is in flight,
\* and at most one is; a submit with a user sets loading and sends one
\* insert with the store as before, a submit without a user sets nothing and
\* sends nothing, and the step that handles the outcome of an insert,
\* success or failure, resets loading.
C22_LoadingWhileInserting ==
    /\ [](/\ loading <=> inserts # EmptyBag
          /\ BagCardinality(inserts) <= 1)
    /\ [][/\ \A t \in Tables : \A row \in FormRows(t, user, today) :
                Submit(t, row) =>
                    IF user = NoUser
                    THEN ~loading' /\ inserts' = EmptyBag
                    ELSE /\ loading'
                         /\ inserts' = SetToBag({[phase |-> "req", row |-> row,
                                                  caller |-> user, err |-> FALSE]})
                         /\ store' = store
          /\ \A q \in Pending(inserts) : InsertResolve(q) => ~loading']_vars

\* An insert failed and its outcome was handled: the modal is still open
\* and loading is false again.
C22_Witness ==
    /\ toast = ToastAdd("time_blocks", TRUE)
    /\ modalOpen
    /\ ~loading
    /\ inserts = EmptyBag

====
